---- MODULE Spec2Model ----
(***************************************************************************)
(* Model of the `pipe!` macro of src/src/lib.rs.                           *)
(*                                                                         *)
(* One macro invocation is one step of the state machine: the invocation   *)
(* `pipe!($in => stage => tail...)` is matched against the five arms in    *)
(* order, the first arm whose pattern matches is transcribed, and the      *)
(* recursive `pipe!` invocation it contains becomes the next state.  The   *)
(* arms that emit `{ let pipe_temp = $in; pipe!(...) }` leave an open      *)
(* block around the recursive invocation; the open blocks are kept on the  *)
(* stack `blocks`.  When arm 1 fires the expansion is complete, and the    *)
(* action Run evaluates the emitted expression with Rust's evaluation      *)
(* order, recording the sequence of effects.                               *)
(***************************************************************************)
EXTENDS Naturals, Sequences, FiniteSets

\* Largest number of stages of a pipeline.
MaxStages == 2

VARIABLES
    in,       \* $in: the expression parsed at the head of the current invocation
    tail,     \* the tokens after $in in the current invocation (`=> stage => ...`)
    blocks,   \* the open `{ let pipe_temp = ...;` blocks around the invocation
    pc,       \* "expand" | "emitted" | "ran"
    stages,   \* the stages of the pipeline as written (never changes)
    arms,     \* arms[k]: the arm that consumed stage k
    ins,      \* ins[k]: $in of the invocation that consumed stage k
    trace     \* the effects of running the emitted expression, in order

vars == <<in, tail, blocks, pc, stages, arms, ins, trace>>

----------------------------------------------------------------------------
\* Token trees.

Ident(s)  == [k |-> "ident",  v |-> s,  body |-> <<>>]
Punct(s)  == [k |-> "punct",  v |-> s,  body |-> <<>>]
Paren(b)  == [k |-> "paren",  v |-> "", body |-> b]
\* A run of tokens that forms one expression and starts with neither an
\* identifier nor a parenthesis (a closure, a literal, ...).
Opaque(s) == [k |-> "opaque", v |-> s,  body |-> <<>>]
Under     == [k |-> "under",  v |-> "_", body |-> <<>>]
Arrow     == Punct("=>")
Comma     == Punct(",")
Dot       == Punct(".")
PathSep   == Punct("::")
Bang      == Punct("!")

----------------------------------------------------------------------------
\* Expressions.  `id` of a call or of a temporary is the number of the
\* invocation that emitted it (its hygiene context); 0 is the caller's code.
\* `span` of an atom is the stage it was written in.

Atom(name, span)       == [op |-> "atom", name |-> name, span |-> span]
Path(toks)             == [op |-> "path", toks |-> toks]
Mac(toks, span)        == [op |-> "mac", toks |-> toks, span |-> span]
Call(callee, args, id) == [op |-> "call", callee |-> callee, args |-> args, id |-> id]
pipe_temp(id)          == [op |-> "pipe_temp", id |-> id]
Block(id, bind, body)  == [op |-> "block", id |-> id, bind |-> bind, body |-> body]
Underscore             == [op |-> "underscore"]
ErrorExpr              == [op |-> "error"]

----------------------------------------------------------------------------
\* The expression parser behind the `expr` fragments.

Sub(t, i, j) == IF i > j THEN <<>> ELSE SubSeq(t, i, j)

\* A token that may begin an `expr_2021` fragment: `_` may not.
CanBeginExpr(t) == t.k \in {"ident", "paren", "opaque"}

\* First index >= i of t holding the token x, Len(t)+1 if there is none.
RECURSIVE FindTok(_, _, _)
FindTok(t, i, x) ==
    IF i > Len(t) THEN Len(t) + 1
    ELSE IF t[i] = x THEN i
    ELSE FindTok(t, i + 1, x)

\* End (exclusive) of the path `ident (sep ident)*` starting at t[i], with
\* sep among seps; 0 if t[i] starts no path or a separator has no identifier
\* after it.
RECURSIVE PathEnd(_, _, _)
PathEnd(t, i, seps) ==
    IF i > Len(t) \/ t[i].k # "ident" THEN 0
    ELSE IF i + 1 <= Len(t) /\ t[i + 1] \in seps THEN PathEnd(t, i + 2, seps)
    ELSE i + 1

RECURSIVE ParseExpr(_, _)
RECURSIVE ParseArgs(_, _)
RECURSIVE ParsePostfix(_, _, _, _)

\* The comma-separated expressions of a call's parentheses; a trailing comma
\* is allowed.
ParseArgs(b, span) ==
    IF b = <<>> THEN <<>>
    ELSE LET c == FindTok(b, 1, Comma)
             first == IF c = 2 /\ b[1] = Under THEN Underscore
                      ELSE ParseExpr(Sub(b, 1, c - 1), span)
         IN  <<first>> \o ParseArgs(Sub(b, c + 1, Len(b)), span)

\* Call suffixes: every parenthesised group after an expression calls it.
ParsePostfix(cur, t, i, span) ==
    IF i > Len(t) THEN cur
    ELSE IF t[i].k = "paren"
         THEN ParsePostfix(Call(cur, ParseArgs(t[i].body, span), 0), t, i + 1, span)
         ELSE ErrorExpr

ParseExpr(t, span) ==
    IF t = <<>> THEN ErrorExpr
    ELSE IF t[1].k = "opaque" THEN ParsePostfix(Atom(t[1].v, span), t, 2, span)
    ELSE IF t[1].k = "paren"
         THEN ParsePostfix(ParseExpr(t[1].body, span), t, 2, span)
    ELSE IF t[1].k = "ident"
         THEN LET p == PathEnd(t, 1, {Dot, PathSep})
              IN  IF p = 0 THEN ErrorExpr
                  ELSE IF p + 1 <= Len(t) /\ t[p] = Bang /\ t[p + 1].k = "paren"
                       THEN ParsePostfix(Mac(Sub(t, 1, p + 1), span), t, p + 2, span)
                       ELSE ParsePostfix(Path(Sub(t, 1, p - 1)), t, p, span)
    ELSE ErrorExpr

----------------------------------------------------------------------------
\* The matcher of the argument pattern shared by arms 3 and 4:
\*   $($($arg_head:expr_2021),*,)? $(_ $(, $arg_tail:expr_2021)*),*
\* macro_rules matches without backtracking; since `_` begins no expr_2021
\* the token at hand always decides which part of the pattern continues.

NoHead   == [ok |-> FALSE, arg_head |-> <<>>, next |-> 0]
NoTails  == [ok |-> FALSE, arg_tail |-> <<>>, next |-> 0, more |-> FALSE]
NoGroups == [ok |-> FALSE, groups |-> <<>>]
NoArgs   == [ok |-> FALSE, has_head |-> FALSE, arg_head |-> <<>>, groups |-> <<>>]

\* $($arg_head),* followed by its `,`, with b[i] beginning an expression.
RECURSIVE MatchHead(_, _, _)
MatchHead(b, i, span) ==
    LET c == FindTok(b, i, Comma)
        e == ParseExpr(Sub(b, i, c - 1), span)
    IN  IF c > Len(b) \/ e = ErrorExpr THEN NoHead
        ELSE IF c + 1 <= Len(b) /\ CanBeginExpr(b[c + 1])
             THEN LET r == MatchHead(b, c + 1, span)
                  IN  [ok |-> r.ok, arg_head |-> <<e>> \o r.arg_head, next |-> r.next]
             ELSE [ok |-> TRUE, arg_head |-> <<e>>, next |-> c + 1]

\* $(, $arg_tail)* from b[j], the token after a `_` or after an $arg_tail.
\* `more` tells that a `,` was the separator before a further `_` at `next`.
RECURSIVE MatchTails(_, _, _)
MatchTails(b, j, span) ==
    IF j > Len(b) THEN [ok |-> TRUE, arg_tail |-> <<>>, next |-> j, more |-> FALSE]
    ELSE IF b[j] # Comma \/ j + 1 > Len(b) THEN NoTails
    ELSE IF b[j + 1] = Under
         THEN [ok |-> TRUE, arg_tail |-> <<>>, next |-> j + 1, more |-> TRUE]
    ELSE IF CanBeginExpr(b[j + 1])
         THEN LET c == FindTok(b, j + 1, Comma)
                  e == ParseExpr(Sub(b, j + 1, c - 1), span)
                  r == MatchTails(b, c, span)
              IN  IF e = ErrorExpr THEN NoTails
                  ELSE [ok |-> r.ok, arg_tail |-> <<e>> \o r.arg_tail,
                        next |-> r.next, more |-> r.more]
    ELSE NoTails

\* $(_ $(, $arg_tail)*),* with b[i] = `_`, up to the end of b.
RECURSIVE MatchGroups(_, _, _)
MatchGroups(b, i, span) ==
    LET r == MatchTails(b, i + 1, span)
    IN  IF ~r.ok THEN NoGroups
        ELSE IF r.more
             THEN LET g == MatchGroups(b, r.next, span)
                  IN  [ok |-> g.ok, groups |-> <<r.arg_tail>> \o g.groups]
             ELSE [ok |-> TRUE, groups |-> <<r.arg_tail>>]

\* The whole pattern against the tokens b of a parenthesised group.
MatchArgs(b, span) ==
    LET entered == b # <<>> /\ (CanBeginExpr(b[1]) \/ b[1] = Comma)
        h == IF b # <<>> /\ CanBeginExpr(b[1]) THEN MatchHead(b, 1, span)
             ELSE IF b # <<>> /\ b[1] = Comma
                  THEN [ok |-> TRUE, arg_head |-> <<>>, next |-> 2]
                  ELSE [ok |-> TRUE, arg_head |-> <<>>, next |-> 1]
    IN  IF ~h.ok THEN NoArgs
        ELSE IF h.next > Len(b)
             THEN [ok |-> TRUE, has_head |-> entered, arg_head |-> h.arg_head,
                   groups |-> <<>>]
        ELSE IF b[h.next] = Under
             THEN LET g == MatchGroups(b, h.next, span)
                  IN  [ok |-> g.ok, has_head |-> entered, arg_head |-> h.arg_head,
                       groups |-> g.groups]
        ELSE NoArgs

\* The transcription  $($($arg_head),*,)? $(pipe_temp $(, $arg_tail)*),*
\* read back as the arguments of the call it is written in.
RECURSIVE FillGroups(_, _)
FillGroups(groups, id) ==
    IF groups = <<>> THEN <<>>
    ELSE <<pipe_temp(id)>> \o Head(groups) \o FillGroups(Tail(groups), id)

\* Mutant: the placeholder groups are written before the head arguments.
FillArgsBlanksFirst(m, id) == FillGroups(m.groups, id) \o m.arg_head

FillArgs(m, id) == m.arg_head \o FillGroups(m.groups, id)

----------------------------------------------------------------------------
\* The arms.  t is the invocation's tokens after $in; n numbers the invocation.

\* $(=> $($tail:tt)+)? at t[p]: nothing, or `=>` and at least one token.
MatchTail(t, p) == p = Len(t) + 1 \/ (p < Len(t) /\ t[p] = Arrow)

\* Mutant: the recursive invocation also loses the stage after this one.
TailTokensSkip(t, p) == Sub(t, FindTok(t, p + 1, Arrow), Len(t))

\* The transcription $(=> $($tail)+)? of the tokens matched from t[p] on.
TailTokens(t, p) == Sub(t, p, Len(t))

\* Mutant: `$i:ident` in place of `$($i:ident).+`.
IdentOnly(t, i) == IF i > Len(t) \/ t[i].k # "ident" THEN 0 ELSE i + 1

\* $($i:ident).+ at t[i]: the index after it, 0 if it does not match.
IdentPath(t, i) == PathEnd(t, i, {Dot})

\* args with every occurrence of the expression x replaced by y.
Inline(args, x, y) == [i \in DOMAIN args |-> IF args[i] = x THEN y ELSE args[i]]

\* Index after the optional `()` of arm 2 at t[p].
AfterUnit(t, p) == IF p <= Len(t) /\ t[p] = Paren(<<>>) THEN p + 1 ELSE p

\* Arm 2:  $in:expr => $($i:ident).+ $(())? $(=> $($tail:tt)+)?
MatchUnaryPath(t) ==
    /\ t # <<>> /\ t[1] = Arrow
    /\ LET p == IdentPath(t, 2)
       IN  p # 0 /\ MatchTail(t, AfterUnit(t, p))

\* Mutant: arm 2 caches the carrier in a temporary like arms 3 and 4.
EmitUnaryPathCached(inp, t, n) ==
    LET p == IdentPath(t, 2)
    IN  [in   |-> Call(Path(Sub(t, 2, p - 1)), <<pipe_temp(n)>>, n),
         tail |-> TailTokens(t, AfterUnit(t, p)),
         let  |-> <<[id |-> n, bind |-> inp]>>]

EmitUnaryPath(inp, t, n) ==
    LET p == IdentPath(t, 2)
    IN  [in   |-> Call(Path(Sub(t, 2, p - 1)), <<inp>>, n),
         tail |-> TailTokens(t, AfterUnit(t, p)),
         let  |-> <<>>]

\* Arm 3:  $in:expr => $($i:ident).+ (<args>) $(=> $($tail:tt)+)?
MatchNamedCall(t) ==
    /\ t # <<>> /\ t[1] = Arrow
    /\ LET p == IdentPath(t, 2)
       IN  /\ p # 0 /\ p <= Len(t) /\ t[p].k = "paren"
           /\ MatchArgs(t[p].body, 0).ok
           /\ MatchTail(t, p + 1)

\* Mutant: $in is written at every placeholder, with no temporary.
EmitNamedCallInline(inp, t, n) ==
    LET p == IdentPath(t, 2)
        m == MatchArgs(t[p].body, n)
    IN  [in   |-> Call(Path(Sub(t, 2, p - 1)),
                       Inline(FillArgs(m, n), pipe_temp(n), inp), n),
         tail |-> TailTokens(t, p + 1),
         let  |-> <<>>]

\* Mutant: the block is closed right after the call, before the recursion.
EmitNamedCallScoped(inp, t, n) ==
    LET p == IdentPath(t, 2)
        m == MatchArgs(t[p].body, n)
    IN  [in   |-> Block(n, inp, Call(Path(Sub(t, 2, p - 1)), FillArgs(m, n), n)),
         tail |-> TailTokens(t, p + 1),
         let  |-> <<>>]

EmitNamedCall(inp, t, n) ==
    LET p == IdentPath(t, 2)
        m == MatchArgs(t[p].body, n)
    IN  [in   |-> Call(Path(Sub(t, 2, p - 1)), FillArgs(m, n), n),
         tail |-> TailTokens(t, p + 1),
         let  |-> <<[id |-> n, bind |-> inp]>>]

\* Arm 4:  $in:expr => ($e:expr) (<args>) $(=> $($tail:tt)+)?
MatchParenCall(t) ==
    /\ Len(t) >= 3 /\ t[1] = Arrow
    /\ t[2].k = "paren" /\ ParseExpr(t[2].body, 0) # ErrorExpr
    /\ t[3].k = "paren" /\ MatchArgs(t[3].body, 0).ok
    /\ MatchTail(t, 4)

\* Mutant: $in is written at every placeholder, with no temporary.
EmitParenCallInline(inp, t, n) ==
    LET m == MatchArgs(t[3].body, n)
    IN  [in   |-> Call(ParseExpr(t[2].body, n),
                       Inline(FillArgs(m, n), pipe_temp(n), inp), n),
         tail |-> TailTokens(t, 4),
         let  |-> <<>>]

EmitParenCall(inp, t, n) ==
    LET m == MatchArgs(t[3].body, n)
    IN  [in   |-> Call(ParseExpr(t[2].body, n), FillArgs(m, n), n),
         tail |-> TailTokens(t, 4),
         let  |-> <<[id |-> n, bind |-> inp]>>]

\* Arm 5:  $in:expr => $e:expr $(=> $($tail:tt)+)?
MatchBareExpr(t) ==
    /\ t # <<>> /\ t[1] = Arrow
    /\ LET x == FindTok(t, 2, Arrow)
       IN  ParseExpr(Sub(t, 2, x - 1), 0) # ErrorExpr /\ MatchTail(t, x)

\* Mutant: the stage's expression is not applied to $in.
EmitBareExprUnapplied(inp, t, n) ==
    LET x == FindTok(t, 2, Arrow)
    IN  [in   |-> ParseExpr(Sub(t, 2, x - 1), n),
         tail |-> TailTokens(t, x),
         let  |-> <<>>]

EmitBareExpr(inp, t, n) ==
    LET x == FindTok(t, 2, Arrow)
    IN  [in   |-> Call(ParseExpr(Sub(t, 2, x - 1), n), <<inp>>, n),
         tail |-> TailTokens(t, x),
         let  |-> <<>>]

\* The arm that takes the invocation with tokens t after $in: the first one
\* that matches; 0 if none does.
Arm(t) ==
    IF t = <<>> THEN 1
    ELSE IF MatchUnaryPath(t) THEN 2
    ELSE IF MatchNamedCall(t) THEN 3
    ELSE IF MatchParenCall(t) THEN 4
    ELSE IF MatchBareExpr(t) THEN 5
    ELSE 0

----------------------------------------------------------------------------
\* The emitted expression and its evaluation.

\* The expression e inside the open blocks bs (outermost first).
RECURSIVE Plug(_, _)
Plug(bs, e) ==
    IF bs = <<>> THEN e
    ELSE Block(Head(bs).id, Head(bs).bind, Plug(Tail(bs), e))

Emitted == Plug(blocks, in)

Event(ev, name, id) == [ev |-> ev, name |-> name, id |-> id]

\* The effects of evaluating e, in Rust's order: the callee, then the
\* arguments from left to right, then the call; in a block the `let`
\* initialiser, then the body, then the end of the binding's scope.
RECURSIVE Eval(_)
RECURSIVE EvalAll(_)
EvalAll(es) == IF es = <<>> THEN <<>> ELSE Eval(Head(es)) \o EvalAll(Tail(es))

Eval(e) ==
    CASE e.op = "atom"      -> <<Event("eval", e.name, e.span)>>
      [] e.op = "mac"       -> <<Event("eval", "macro", e.span)>>
      [] e.op = "path"      -> <<>>
      [] e.op = "pipe_temp" -> <<Event("read", "pipe_temp", e.id)>>
      [] e.op = "call"      -> Eval(e.callee) \o EvalAll(e.args)
                                   \o <<Event("call", "", e.id)>>
      [] e.op = "block"     -> Eval(e.bind) \o <<Event("let", "pipe_temp", e.id)>>
                                   \o Eval(e.body)
                                   \o <<Event("end", "pipe_temp", e.id)>>
      [] OTHER              -> <<Event("error", "", 0)>>

----------------------------------------------------------------------------
\* The pipelines.

\* Callees of call-shaped stages: a name, a two-segment path, a
\* parenthesised callable.
Callees ==
    { <<Ident("f")>>,
      <<Ident("y"), Dot, Ident("max")>>,
      <<Paren(<<Ident("c")>>)>> }

\* Their argument lists.
ArgLists ==
    { <<Under, Comma, Opaque("b")>>,
      <<Opaque("a"), Comma, Under>>,
      <<Under, Comma, Under>>,
      <<Opaque("a"), Comma, Under, Comma, Opaque("b")>>,
      <<Opaque("a"), Comma, Opaque("b")>>,
      <<Opaque("a"), Comma, Opaque("b"), Comma>> }

StageForms ==
    { c \o <<Paren(a)>> : c \in Callees, a \in ArgLists }
    \cup { <<Ident("f")>>,
           <<Ident("f"), Paren(<<>>)>>,
           <<Ident("y"), Dot, Ident("max")>>,
           <<Ident("y"), Dot, Ident("max"), Paren(<<>>)>>,
           <<Ident("u16"), PathSep, Ident("to_be")>>,
           <<Opaque("|x| x * 2")>>,
           <<Ident("bind"), Bang, Paren(<<Ident("f"), Paren(<<Under, Comma, Opaque("a")>>)>>)>>,
           <<Paren(<<Ident("c")>>), Paren(<<>>)>> }

Pipelines == UNION { [1..n -> StageForms] : n \in 0..MaxStages }

\* The initial expression of every pipeline.
Initial == <<Opaque("x")>>

\* The tokens `=> s1 => s2 ...` of the stages ss from stage k on.
RECURSIVE StageTokens(_, _)
StageTokens(ss, k) ==
    IF k > Len(ss) THEN <<>>
    ELSE <<Arrow>> \o ss[k] \o StageTokens(ss, k + 1)

Init ==
    /\ stages \in Pipelines
    /\ in = ParseExpr(Initial, 0)
    /\ tail = StageTokens(stages, 1)
    /\ blocks = <<>>
    /\ pc = "expand"
    /\ arms = <<>>
    /\ ins = <<>>
    /\ trace = <<>>

\* The invocation is replaced by what its arm emitted: the recursive
\* invocation becomes the current one, inside the block the arm opened.
Expand(arm, out) ==
    /\ in' = out.in
    /\ tail' = out.tail
    /\ blocks' = blocks \o out.let
    /\ arms' = Append(arms, arm)
    /\ ins' = Append(ins, in)
    /\ UNCHANGED <<pc, stages, trace>>

\* Arm 1:  ($e:expr) => { $e }
Base ==
    /\ pc = "expand"
    /\ Arm(tail) = 1
    /\ pc' = "emitted"
    /\ UNCHANGED <<in, tail, blocks, stages, arms, ins, trace>>

UnaryPath ==
    /\ pc = "expand"
    /\ Arm(tail) = 2
    /\ Expand(2, EmitUnaryPath(in, tail, Len(arms) + 1))

NamedCall ==
    /\ pc = "expand"
    /\ Arm(tail) = 3
    /\ Expand(3, EmitNamedCall(in, tail, Len(arms) + 1))

ParenCall ==
    /\ pc = "expand"
    /\ Arm(tail) = 4
    /\ Expand(4, EmitParenCall(in, tail, Len(arms) + 1))

BareExpr ==
    /\ pc = "expand"
    /\ Arm(tail) = 5
    /\ Expand(5, EmitBareExpr(in, tail, Len(arms) + 1))

\* The emitted expression is evaluated where the invocation stood.
Run ==
    /\ pc = "emitted"
    /\ trace' = Eval(Emitted)
    /\ pc' = "ran"
    /\ UNCHANGED <<in, tail, blocks, stages, arms, ins>>

Next == Base \/ UnaryPath \/ NamedCall \/ ParenCall \/ BareExpr \/ Run

Spec == Init /\ [][Next]_vars

----------------------------------------------------------------------------
\* Reading the pipeline as written, for the properties below.

NumStages == Len(stages)
Consumed  == Len(arms)

\* The expression the invocation of stage k left as $in of the next one.
CallOf(k) == IF k < Len(ins) THEN ins[k + 1] ELSE in

HasBlock(k) == \E i \in DOMAIN blocks : blocks[i].id = k
BlockOf(k)  == blocks[CHOOSE i \in DOMAIN blocks : blocks[i].id = k]

\* s is `ident (. ident)*`.
DottedPath(s) ==
    /\ Len(s) % 2 = 1
    /\ \A i \in DOMAIN s : IF i % 2 = 1 THEN s[i].k = "ident" ELSE s[i] = Dot

\* Shape 1 of the stage grammar: a path, or a path and `()`.
UnaryShape(s) ==
    \/ DottedPath(s)
    \/ Len(s) >= 2 /\ s[Len(s)] = Paren(<<>>) /\ DottedPath(Sub(s, 1, Len(s) - 1))

\* s is `path(...)` or `(c)(...)`.
CallShape(s) ==
    /\ Len(s) >= 2 /\ s[Len(s)].k = "paren"
    /\ \/ DottedPath(Sub(s, 1, Len(s) - 1))
       \/ Len(s) = 2 /\ s[1].k = "paren"

ArgsOf(s)    == s[Len(s)].body
CalleeOf(s)  == Sub(s, 1, Len(s) - 1)
Blanks(b)    == Cardinality({i \in DOMAIN b : b[i] = Under})

\* Shapes 2 and 3 of the stage grammar: a call with at least one `_`.
PlaceholderShape(s) == CallShape(s) /\ Blanks(ArgsOf(s)) >= 1

\* The arguments of a placeholder stage with `t` written for every `_`.
WithTemp(args, t) == [i \in DOMAIN args |-> IF args[i] = Underscore THEN t ELSE args[i]]

Count(tr, ev) == Cardinality({i \in DOMAIN tr : tr[i] = ev})
Pos(tr, ev)   == FindTok(tr, 1, ev)
Occurs(tr, ev) == Pos(tr, ev) <= Len(tr)

CallEv(k) == Event("call", "", k)
LetEv(k)  == Event("let", "pipe_temp", k)
EndEv(k)  == Event("end", "pipe_temp", k)
ReadEv(k) == Event("read", "pipe_temp", k)

\* The last effect of evaluating the carrier of stage k: the call of stage
\* k-1, or the evaluation of the initial expression.
CarrierEv(k) == IF k = 1 THEN Event("eval", Initial[1].v, 0) ELSE CallEv(k - 1)

\* The names of the written (non-placeholder) arguments of b, in order.
RECURSIVE Written(_)
Written(b) ==
    IF b = <<>> THEN <<>>
    ELSE IF Head(b).k = "opaque" THEN <<Head(b).v>> \o Written(Tail(b))
    ELSE Written(Tail(b))

\* The names of the argument expressions of stage k, in the order they ran.
RECURSIVE Ran(_, _)
Ran(tr, k) ==
    IF tr = <<>> THEN <<>>
    ELSE IF Head(tr).ev = "eval" /\ Head(tr).id = k
         THEN <<Head(tr).name>> \o Ran(Tail(tr), k)
         ELSE Ran(Tail(tr), k)

\* What arm `arm` emits for the invocation `pipe!(inp t)`.
EmitBy(arm, inp, t, n) ==
    CASE arm = 2 -> EmitUnaryPath(inp, t, n)
      [] arm = 3 -> EmitNamedCall(inp, t, n)
      [] arm = 4 -> EmitParenCall(inp, t, n)
      [] OTHER   -> EmitBareExpr(inp, t, n)

\* e with the expression `from` replaced by `to`.
RECURSIVE Rename(_, _, _)
Rename(e, from, to) ==
    IF e = from THEN to
    ELSE IF e.op = "call"
         THEN Call(Rename(e.callee, from, to),
                   [i \in DOMAIN e.args |-> Rename(e.args[i], from, to)], e.id)
         ELSE e

\* The nested application fk(...f1(e)...) of the first k stages of ss, all
\* of them unary paths.
RECURSIVE Nested(_, _)
Nested(ss, k) ==
    IF k = 0 THEN ParseExpr(Initial, 0)
    ELSE LET s == ss[k]
             path == IF s[Len(s)].k = "paren" THEN CalleeOf(s) ELSE s
         IN  Call(Path(path), <<Nested(ss, k - 1)>>, k)

\* An identifier that no pipeline uses, and the leading path of a stage.
Single == <<Ident("single")>>

PathPrefix(s) == Sub(s, 1, PathEnd(s, 1, {Dot}) - 1)

\* The invocations whose temporary occurs among args.
RECURSIVE Temps(_)
Temps(args) ==
    IF args = <<>> THEN {}
    ELSE (IF Head(args).op = "pipe_temp" THEN {Head(args).id} ELSE {}) \cup Temps(Tail(args))

----------------------------------------------------------------------------
\* C1: a pipeline whose stages are all unary paths (bare, or with empty
\* parentheses) expands to the nested application fk(...f1(e)...) with no
\* temporary; with no stage it expands to e itself.
C1_NestedApplication ==
    (pc # "expand" /\ \A k \in 1..NumStages : UnaryShape(stages[k]))
        => Emitted = Nested(stages, NumStages)

C1_Witness ==
    /\ pc = "emitted" /\ NumStages = 2
    /\ stages[1] = <<Ident("f")>>
    /\ stages[2] = <<Ident("y"), Dot, Ident("max"), Paren(<<>>)>>
    /\ Emitted = Nested(stages, 2)

\* C2: the emitted code of a stage with m >= 1 placeholders evaluates the
\* carrier exactly once, binds it once, and reads that one binding m times,
\* between the binding and the stage's call.
C2_CarrierOnce ==
    pc = "ran" =>
        \A k \in 1..NumStages :
            PlaceholderShape(stages[k]) =>
                /\ Count(trace, CarrierEv(k)) = 1
                /\ Count(trace, LetEv(k)) = 1
                /\ Count(trace, ReadEv(k)) = Blanks(ArgsOf(stages[k]))
                /\ \A i \in DOMAIN trace :
                       trace[i] = ReadEv(k) =>
                           Pos(trace, LetEv(k)) < i /\ i < Pos(trace, CallEv(k))

C2_Witness ==
    /\ pc = "ran" /\ NumStages = 2
    /\ stages[2] = <<Ident("f"), Paren(<<Under, Comma, Under>>)>>
    /\ Count(trace, ReadEv(2)) = 2
    /\ Count(trace, CallEv(1)) = 1

\* C3: the call emitted for a placeholder stage has the arguments of the
\* stage, each written argument at its index and the stage's temporary at
\* every index that held a placeholder.
C3_ArgumentPositions ==
    \A k \in 1..Consumed :
        PlaceholderShape(stages[k]) =>
            /\ CallOf(k).op = "call"
            /\ CallOf(k).args = WithTemp(ParseArgs(ArgsOf(stages[k]), k), pipe_temp(k))

C3_Witness ==
    /\ Consumed >= 1
    /\ stages[1] = <<Ident("f"), Paren(<<Opaque("a"), Comma, Under, Comma, Opaque("b")>>)>>
    /\ CallOf(1).args = <<Atom("a", 1), pipe_temp(1), Atom("b", 1)>>

\* C4: a stage `name(args)` or `(c)(args)` with arguments and no placeholder,
\* with or without a trailing comma, is taken by the bare-expression arm:
\* no temporary, and the whole call is applied to the carrier.
C4_NoPlaceholderIsBare ==
    \A k \in 1..Consumed :
        (CallShape(stages[k]) /\ ArgsOf(stages[k]) # <<>> /\ Blanks(ArgsOf(stages[k])) = 0)
            => /\ arms[k] = 5
               /\ ~HasBlock(k)
               /\ CallOf(k) = Call(ParseExpr(stages[k], k), <<ins[k]>>, k)

C6_FallbackIsApplication ==
    \A k \in 1..Consumed :
        (~UnaryShape(stages[k]) /\ ~PlaceholderShape(stages[k]))
            => /\ arms[k] = 5
               /\ ~HasBlock(k)
               /\ CallOf(k) = Call(ParseExpr(stages[k], k), <<ins[k]>>, k)

\* C7 as claimed: in the code emitted for `g(a, _, b)` the written arguments
\* left of the placeholder run before the carrier, those right of it after.
C7_SourceOrder ==
    pc = "ran" =>
        \A k \in 1..NumStages :
            PlaceholderShape(stages[k]) =>
                LET b == ArgsOf(stages[k])
                    u == FindTok(b, 1, Under)
                IN  \A i \in DOMAIN b :
                        b[i].k = "opaque" =>
                            IF i < u
                            THEN Pos(trace, Event("eval", b[i].v, k)) < Pos(trace, CarrierEv(k))
                            ELSE Pos(trace, CarrierEv(k)) < Pos(trace, Event("eval", b[i].v, k))

\* C7 amended: the carrier runs first, when the temporary is bound; then the
\* written arguments run in their left-to-right order, before the call.
C7_CarrierThenArguments ==
    pc = "ran" =>
        \A k \in 1..NumStages :
            PlaceholderShape(stages[k]) =>
                /\ Occurs(trace, LetEv(k))
                /\ Pos(trace, CarrierEv(k)) < Pos(trace, LetEv(k))
                /\ Ran(trace, k) = Written(ArgsOf(stages[k]))
                /\ \A i \in DOMAIN trace :
                       (trace[i].ev = "eval" /\ trace[i].id = k) =>
                           Pos(trace, LetEv(k)) < i /\ i < Pos(trace, CallEv(k))

C7_Witness ==
    /\ pc = "ran" /\ NumStages = 2
    /\ stages[2] = <<Paren(<<Ident("c")>>), Paren(<<Opaque("a"), Comma, Under, Comma, Opaque("b")>>)>>
    /\ Ran(trace, 2) = <<"a", "b">>
    /\ Pos(trace, CallEv(1)) < Pos(trace, Event("eval", "a", 2))

\* C8 as claimed: the scope of the temporary of a placeholder stage ends
\* right after that stage's call.
C8_ScopeEndsAfterCall ==
    pc = "ran" =>
        \A k \in 1..NumStages :
            PlaceholderShape(stages[k]) =>
                /\ Pos(trace, CallEv(k)) < Len(trace)
                /\ trace[Pos(trace, CallEv(k)) + 1] = EndEv(k)

\* C8 amended: the temporary of a placeholder stage is bound before the
\* stage's call and its scope ends only after the call of the last stage;
\* the scopes of later temporaries end before it.
C8_ScopeEnclosesRest ==
    pc = "ran" =>
        \A k \in 1..NumStages :
            PlaceholderShape(stages[k]) =>
                /\ Count(trace, EndEv(k)) = 1
                /\ Pos(trace, LetEv(k)) < Pos(trace, CallEv(k))
                /\ \A j \in k..NumStages : Pos(trace, CallEv(j)) < Pos(trace, EndEv(k))
                /\ \A j \in (k + 1)..NumStages :
                       Occurs(trace, EndEv(j)) => Pos(trace, EndEv(j)) < Pos(trace, EndEv(k))

C8_Witness ==
    /\ pc = "ran" /\ NumStages = 2
    /\ PlaceholderShape(stages[1])
    /\ PlaceholderShape(stages[2])
    /\ Pos(trace, CallEv(2)) < Pos(trace, EndEv(2))
    /\ Pos(trace, EndEv(2)) < Pos(trace, EndEv(1))

C10_OneStagePerStep ==
    /\ Consumed <= NumStages
    /\ tail = StageTokens(stages, Consumed + 1)
    /\ (pc = "expand" /\ Consumed = NumStages) => Arm(tail) = 1
    /\ (pc = "expand" /\ Consumed < NumStages) => Arm(tail) \in 2..5
    /\ pc # "expand" => Consumed = NumStages

C10_Witness ==
    /\ pc = "emitted" /\ NumStages = 2 /\ Consumed = 2
    /\ arms[1] # arms[2]
    /\ tail = <<>>

====
